---- MODULE Spec2Model ----
(***************************************************************************)
(* The listbox of packages/core: ListboxRoot (listbox-root.tsx) and the    *)
(* SelectListbox that renders it with the Select's list state.             *)
(*                                                                         *)
(* A prop is an option: {} when the prop is not given, {v} when it is      *)
(* given with value v.  A list state is an object; the model names the two *)
(* objects that can exist, "own" (built by ListboxRoot from its props) and *)
(* "ext" (the Select's, handed in through the state prop).                 *)
(***************************************************************************)
EXTENDS Integers, Sequences, FiniteSets

\* Number of options of a collection; the option keys are 1..NumKeys.
NumKeys == 3

VARIABLES component, props, own, ext, log

vars == <<component, props, own, ext, log>>

Keys == 1..NumKeys

The(o) == CHOOSE x \in o : TRUE

\* access(v) used as a condition: undefined and false are both falsy.
access(o) == o = {TRUE}

Min(S) == CHOOSE x \in S : \A y \in S : x <= y

Max(S) == CHOOSE x \in S : \A y \in S : x >= y

-----------------------------------------------------------------------------
(* Props *)

PropNames ==
  { "value", "defaultValue", "onValueChange", "options", "state",
    "selectionMode", "selectionBehavior", "disallowEmptySelection",
    "allowDuplicateSelectionEvents", "shouldFocusWrap", "selectOnFocus",
    "shouldSelectOnPressUp", "shouldFocusOnHover",
    "onKeyDown", "onMouseDown", "onFocusIn", "onFocusOut",
    "aria-multiselectable" }

NoProps == [k \in PropNames |-> {}]

\* An event handler is the sequence of callees it runs; the consumer's own
\* handler runs the consumer's code.
ConsumerHandler == <<"consumer">>

\* options: every key 1..NumKeys in order, the keys of D disabled.
MkOptions(D) == [i \in Keys |-> [key |-> i, disabled |-> i \in D]]

\* mergeProps / JSX spread: a later source wins where it defines the prop.
\* (An object of props is total here: a prop it does not have is {}.)
mergeProps(a, b) ==
  [k \in PropNames |-> IF b[k] # {} THEN b[k] ELSE a[k]]

\* Reading a prop an object does not have gives undefined.
prop(p, k) == IF k \in DOMAIN p THEN p[k] ELSE {}

\* splitProps(props, keys) gives two objects: the props of keys (undefined
\* where props has none), and the other props.
splitPropsLocal(p, keys) == [k \in keys |-> p[k]]

splitPropsOthers(p, keys) == [k \in PropNames |-> IF k \in keys THEN {} ELSE p[k]]

-----------------------------------------------------------------------------
(* SelectListbox *)

\* The props SelectListbox renders Listbox.Root with.
SelectListboxRender(p) ==
  mergeProps(
    [NoProps EXCEPT !["state"] = {"ext"},
                    !["shouldSelectOnPressUp"] = {TRUE},
                    !["shouldFocusOnHover"] = {TRUE}],
    p)

\* The props ListboxRoot is called with.
ListboxRootProps ==
  IF component = "SelectListbox" THEN SelectListboxRender(props) ELSE props

-----------------------------------------------------------------------------
(* ListboxRoot *)

mergeDefaultProps_multiple(p) ==
  mergeProps([NoProps EXCEPT !["selectionMode"] = {"multiple"}], p)

\* props = mergeDefaultProps({ id, selectionMode: "single", isVirtualized }, props)
mergeDefaultProps(p) ==
  mergeProps([NoProps EXCEPT !["selectionMode"] = {"single"}], p)

LocalKeys_handlersLeft ==
  PropNames \ {"aria-multiselectable", "onKeyDown", "onMouseDown", "onFocusIn", "onFocusOut"}

\* The keys splitProps takes out of the props.
LocalKeys ==
  PropNames \ {"aria-multiselectable"}

local == splitPropsLocal(mergeDefaultProps(ListboxRootProps), LocalKeys)

others == splitPropsOthers(mergeDefaultProps(ListboxRootProps), LocalKeys)

listState_own == "own"

\* The memo: the state prop when given, else the list state created here.
listState ==
  IF prop(local, "state") # {} THEN The(prop(local, "state")) ELSE "own"

selectedKeysArg_defaultValue == prop(local, "defaultValue")

\* selectedKeys: () => local.value
selectedKeysArg == prop(local, "value")

\* defaultSelectedKeys: () => local.defaultValue
defaultSelectedKeysArg == prop(local, "defaultValue")

\* onSelectionChange: local.onValueChange
onSelectionChangeArg == prop(local, "onValueChange")

allowDuplicateSelectionEventsArg_dropped == FALSE

\* allowDuplicateSelectionEvents: () => access(local.allowDuplicateSelectionEvents)
allowDuplicateSelectionEventsArg == access(prop(local, "allowDuplicateSelectionEvents"))

disallowEmptySelectionArg_dropped == FALSE

\* disallowEmptySelection: () => access(local.disallowEmptySelection)
disallowEmptySelectionArg == access(prop(local, "disallowEmptySelection"))

\* selectionBehavior: () => access(local.selectionBehavior)
selectionBehaviorArg == prop(local, "selectionBehavior")

\* selectionMode: () => access(local.selectionMode)
selectionModeArg == prop(local, "selectionMode")

\* dataSource: () => local.options ?? []
dataSourceArg == IF prop(local, "options") # {} THEN The(prop(local, "options")) ELSE <<>>

\* The options createListState is called with (each one an accessor, read
\* whenever the list state reads it).
createListStateArgs ==
  [ selectedKeys |-> selectedKeysArg,
    defaultSelectedKeys |-> defaultSelectedKeysArg,
    onSelectionChange |-> onSelectionChangeArg,
    allowDuplicateSelectionEvents |-> allowDuplicateSelectionEventsArg,
    disallowEmptySelection |-> disallowEmptySelectionArg,
    selectionBehavior |-> selectionBehaviorArg,
    selectionMode |-> selectionModeArg,
    dataSource |-> dataSourceArg ]

shouldFocusWrapArg_always == TRUE

\* shouldFocusWrap: () => access(local.shouldFocusWrap)
shouldFocusWrapArg == access(prop(local, "shouldFocusWrap"))

\* The options createSelectableList is called with.
createSelectableListArgs ==
  [ listState |-> listState,
    shouldFocusWrap |-> shouldFocusWrapArg,
    disallowEmptySelection |-> access(prop(local, "disallowEmptySelection")),
    selectOnFocus |-> access(prop(local, "selectOnFocus")) ]

\* The context value given to the options of the listbox.
context ==
  [ listState |-> listState,
    shouldSelectOnPressUp |-> ListboxRootProps["shouldSelectOnPressUp"],
    shouldFocusOnHover |-> ListboxRootProps["shouldFocusOnHover"] ]

-----------------------------------------------------------------------------
(* The list state: createListState, its selection manager and collection.  *)
(* a is the record of options the state was created with; m is the state   *)
(* while a handler runs: the selection signal, the focus, and what the     *)
(* handler has proposed and reported so far.                               *)

\* createMultipleSelectionState's defaults: selectionMode "none",
\* selectionBehavior "toggle".
selectionMode(a) == IF a.selectionMode = {} THEN "none" ELSE The(a.selectionMode)

selectionBehavior(a) ==
  IF a.selectionBehavior = {} THEN "toggle" ELSE The(a.selectionBehavior)

collection(a) == a.dataSource

CollectionKeys(a) == {collection(a)[i].key : i \in DOMAIN collection(a)}

\* The controllable signal: the controlled value when one is supplied, else
\* the state's own signal.
selectedKeys(a, m) ==
  IF a.selectedKeys # {} THEN The(a.selectedKeys) ELSE m.signal

\* The signal of a new list state: defaultSelectedKeys, or the empty selection.
initialSignal(a) ==
  IF a.defaultSelectedKeys # {} THEN The(a.defaultSelectedKeys) ELSE {}

isSelected(a, m, key) ==
  selectionMode(a) # "none" /\ key \in selectedKeys(a, m)

canSelectItem(a, key) ==
  /\ selectionMode(a) # "none"
  /\ \E i \in DOMAIN collection(a) :
       collection(a)[i].key = key /\ ~collection(a)[i].disabled

\* state.setSelectedKeys: the set is passed on unless it equals the current
\* one and duplicate events are not allowed; passing it on sets the signal of
\* an uncontrolled state and calls onSelectionChange.
setSelectedKeys(a, m, keys) ==
  LET m1 == [m EXCEPT !.proposed = Append(@, keys)] IN
  IF a.allowDuplicateSelectionEvents \/ keys # selectedKeys(a, m)
    THEN [m1 EXCEPT
            !.signal = IF a.selectedKeys = {} THEN keys ELSE @,
            !.changes = IF a.onSelectionChange # {} THEN Append(@, keys) ELSE @]
    ELSE m1

replaceSelection(a, m, key) ==
  IF selectionMode(a) = "none" THEN m
  ELSE setSelectedKeys(a, m, IF canSelectItem(a, key) THEN {key} ELSE {})

toggleSelection(a, m, key) ==
  IF selectionMode(a) = "none" THEN m
  ELSE IF selectionMode(a) = "single" /\ ~isSelected(a, m, key)
    THEN replaceSelection(a, m, key)
  ELSE
    LET cur == selectedKeys(a, m)
        keys == IF key \in cur THEN cur \ {key}
                ELSE IF canSelectItem(a, key) THEN cur \cup {key}
                ELSE cur
    IN IF a.disallowEmptySelection /\ keys = {} THEN m
       ELSE setSelectedKeys(a, m, keys)

selectAll(a, m) ==
  IF selectionMode(a) = "multiple"
    THEN setSelectedKeys(a, m, {k \in CollectionKeys(a) : canSelectItem(a, k)})
    ELSE m

clearSelection(a, m) ==
  IF ~a.disallowEmptySelection /\ selectedKeys(a, m) # {}
    THEN setSelectedKeys(a, m, {})
    ELSE m

select(a, m, key) ==
  IF selectionMode(a) = "none" THEN m
  ELSE IF selectionMode(a) = "single"
    THEN IF isSelected(a, m, key) /\ ~a.disallowEmptySelection
           THEN toggleSelection(a, m, key)
           ELSE replaceSelection(a, m, key)
  ELSE IF selectionBehavior(a) = "toggle"
    THEN toggleSelection(a, m, key)
  ELSE replaceSelection(a, m, key)

\* The first selected key, in the order of the collection.
firstSelectedKey(a, m) ==
  LET I == {i \in DOMAIN collection(a) : collection(a)[i].key \in selectedKeys(a, m)}
  IN IF I = {} THEN {} ELSE {collection(a)[Min(I)].key}

-----------------------------------------------------------------------------
(* The keyboard delegate of a list: disabled options are skipped.          *)

Focusable(a) == {i \in DOMAIN collection(a) : ~collection(a)[i].disabled}

IndexOf(a, key) ==
  LET I == {i \in DOMAIN collection(a) : collection(a)[i].key = key}
  IN IF I = {} THEN 0 ELSE Min(I)

getFirstKey(a) ==
  IF Focusable(a) = {} THEN {} ELSE {collection(a)[Min(Focusable(a))].key}

getLastKey(a) ==
  IF Focusable(a) = {} THEN {} ELSE {collection(a)[Max(Focusable(a))].key}

getKeyBelow(a, key) ==
  LET I == {i \in Focusable(a) : IndexOf(a, key) # 0 /\ i > IndexOf(a, key)}
  IN IF I = {} THEN {} ELSE {collection(a)[Min(I)].key}

getKeyAbove(a, key) ==
  LET I == {i \in Focusable(a) : IndexOf(a, key) # 0 /\ i < IndexOf(a, key)}
  IN IF I = {} THEN {} ELSE {collection(a)[Max(I)].key}

-----------------------------------------------------------------------------
(* The selectable list: createSelectableList's handlers.  sl is the record *)
(* of options it was created with.                                         *)

setFocusedKey(m, k) == [m EXCEPT !.focusedKey = k]

\* Focus the key, if there is one, and select it when selectOnFocus is set.
navigateToKey(sl, a, m, k) ==
  IF k = {} THEN m
  ELSE IF sl.selectOnFocus THEN replaceSelection(a, setFocusedKey(m, k), The(k))
  ELSE setFocusedKey(m, k)

\* Typing the text of option c: the search runs from the focused key
\* downward, then from the first key; it passes over disabled options.
getKeyForSearch(a, m, c) ==
  IF c \in CollectionKeys(a) /\ (IndexOf(a, c) \in Focusable(a) \/ m.focusedKey = {c})
    THEN {c} ELSE {}

selectableListOnKeyDown(sl, a, m, e) ==
  CASE e.key = "ArrowDown" ->
         LET below == IF m.focusedKey # {} THEN getKeyBelow(a, The(m.focusedKey))
                      ELSE getFirstKey(a)
             nextKey == IF below = {} /\ sl.shouldFocusWrap THEN getFirstKey(a)
                        ELSE below
         IN navigateToKey(sl, a, m, nextKey)
    [] e.key = "ArrowUp" ->
         LET above == IF m.focusedKey # {} THEN getKeyAbove(a, The(m.focusedKey))
                      ELSE getLastKey(a)
             nextKey == IF above = {} /\ sl.shouldFocusWrap THEN getLastKey(a)
                        ELSE above
         IN navigateToKey(sl, a, m, nextKey)
    [] e.key = "Home" -> navigateToKey(sl, a, m, getFirstKey(a))
    [] e.key = "End" -> navigateToKey(sl, a, m, getLastKey(a))
    [] e.key = "Escape" ->
         IF ~sl.disallowEmptySelection THEN clearSelection(a, m) ELSE m
    [] e.key = "a" /\ e.ctrl ->
         IF selectionMode(a) = "multiple" THEN selectAll(a, m) ELSE m
    [] e.key = "char" ->
         LET k == getKeyForSearch(a, m, e.char)
         IN IF k = {} THEN m ELSE setFocusedKey(m, k)
    [] OTHER -> m

\* Focus enters the list: the first selected key, or the first key, gets the
\* focus unless a key has it already.
selectableListOnFocusIn(sl, a, m) ==
  IF m.isFocused THEN m
  ELSE LET m1 == [m EXCEPT !.isFocused = TRUE]
       IN IF m1.focusedKey # {} THEN m1
          ELSE navigateToKey(sl, a, m1,
                 IF firstSelectedKey(a, m1) # {} THEN firstSelectedKey(a, m1)
                 ELSE getFirstKey(a))

\* Focus leaves the list.
selectableListOnFocusOut(sl, a, m) == [m EXCEPT !.isFocused = FALSE]

\* Only the default of the mouse event is prevented.
selectableListOnMouseDown(sl, a, m) == m

RECURSIVE composeEventHandlers(_)
\* composeEventHandlers(handlers): the handlers that are given, called in
\* the order of the array.
composeEventHandlers(hs) ==
  IF hs = <<>> THEN <<>>
  ELSE (IF Head(hs) = {} THEN <<>> ELSE The(Head(hs))) \o composeEventHandlers(Tail(hs))

-----------------------------------------------------------------------------
(* What ListboxRoot renders *)

\* The options of a list state: those ListboxRoot gave its own, or those
\* the owner of the external one gave it.
Args(id) == IF id = "own" THEN createListStateArgs ELSE The(ext).args

ariaMultiselectable_fromProp ==
  IF prop(local, "selectionMode") = {"multiple"} THEN {TRUE} ELSE {}

\* aria-multiselectable: true for the selection mode "multiple", else undefined.
ariaMultiselectable ==
  IF selectionMode(Args(listState)) = "multiple" THEN {TRUE} ELSE {}

\* onKeyDown={composeEventHandlers([local.onKeyDown, selectableList.onKeyDown])}
onKeyDown == {composeEventHandlers(<<prop(local, "onKeyDown"), {<<"selectableList">>}>>)}

onMouseDown == {composeEventHandlers(<<prop(local, "onMouseDown"), {<<"selectableList">>}>>)}

onFocusIn == {composeEventHandlers(<<prop(local, "onFocusIn"), {<<"selectableList">>}>>)}

onFocusOut == {composeEventHandlers(<<prop(local, "onFocusOut"), {<<"selectableList">>}>>)}

\* The props of the rendered element: those set by ListboxRoot, then the
\* spread of the others.
rendered ==
  mergeProps(
    [NoProps EXCEPT !["aria-multiselectable"] = ariaMultiselectable,
                    !["onKeyDown"] = onKeyDown,
                    !["onMouseDown"] = onMouseDown,
                    !["onFocusIn"] = onFocusIn,
                    !["onFocusOut"] = onFocusOut],
    others)

-----------------------------------------------------------------------------
(* State *)

NewState == [signal |-> {}, focusedKey |-> {}, isFocused |-> FALSE]

\* The state of list state id, as a handler finds it.
Machine(id) ==
  LET st == IF id = "own" THEN The(own) ELSE The(ext)
  IN [signal |-> st.signal, focusedKey |-> st.focusedKey, isFocused |-> st.isFocused,
      proposed |-> <<>>, changes |-> <<>>]

\* The selected keys and the focused key of list state id.
SelectedKeysOf(id) ==
  IF id = "own"
    THEN selectedKeys([selectedKeys |-> selectedKeysArg], The(own))
    ELSE selectedKeys(The(ext).args, The(ext))

FocusedKeyOf(id) == Machine(id).focusedKey

\* The handler's result m stored back in list state id, and the record of
\* the dispatch.
Store(id, m, event, key, calls) ==
  /\ own' = IF id = "own"
              THEN {[signal |-> m.signal, focusedKey |-> m.focusedKey, isFocused |-> m.isFocused]}
              ELSE own
  /\ ext' = IF id = "ext"
              THEN {[The(ext) EXCEPT !.signal = m.signal, !.focusedKey = m.focusedKey,
                                     !.isFocused = m.isFocused]}
              ELSE ext
  /\ log' = [event |-> event, key |-> key, calls |-> calls,
             proposed |-> m.proposed, changes |-> m.changes]

Ran(calls, callee) == \E i \in DOMAIN calls : calls[i] = callee

-----------------------------------------------------------------------------
(* Inputs *)

NoInput == [key |-> "", ctrl |-> FALSE, char |-> 0]

KeyEvents ==
  {[NoInput EXCEPT !.key = k] : k \in {"ArrowDown", "ArrowUp", "Home", "End", "Escape"}}
    \cup {[NoInput EXCEPT !.key = "a", !.ctrl = TRUE]}
    \cup {[NoInput EXCEPT !.key = "char", !.char = c] : c \in Keys}

Flag == {{}, {FALSE}, {TRUE}}

Modes == {{}, {"none"}, {"single"}, {"multiple"}}

\* No selected key is a disabled option.
ValidSelection(S, options) ==
  \A i \in DOMAIN options : options[i].disabled => options[i].key \notin S

\* A listbox that is configured for selection.
SelectionProps ==
  { [NoProps EXCEPT !["options"] = {MkOptions(Keys \ {1, 2})},
                    !["onValueChange"] = {TRUE},
                    !["value"] = vd[1],
                    !["defaultValue"] = vd[2],
                    !["selectionMode"] = sm,
                    !["selectionBehavior"] = sb,
                    !["disallowEmptySelection"] = de,
                    !["allowDuplicateSelectionEvents"] = ad] :
      vd \in {<<{}, {}>>, <<{}, {{1, 2}}>>, <<{{1}}, {{1, 2}}>>},
      sm \in Modes, sb \in {{}, {"replace"}}, de \in {{}, {TRUE}}, ad \in Flag }

\* A listbox that is configured for keyboard navigation.
FocusProps ==
  { [NoProps EXCEPT !["options"] = o,
                    !["onValueChange"] = {TRUE},
                    !["shouldFocusWrap"] = fw,
                    !["selectOnFocus"] = sf,
                    !["disallowEmptySelection"] = de,
                    !["selectionMode"] = sm] :
      o \in {{}} \cup {{MkOptions(D)} : D \in {{}, {1}, {NumKeys}, {1, NumKeys}}},
      fw \in Flag, sf \in {{}, {TRUE}}, de \in {{}, {TRUE}}, sm \in {{}, {"multiple"}} }

Handlers == {"onKeyDown", "onMouseDown", "onFocusIn", "onFocusOut"}

\* The attributes and handlers a consumer puts on the element.
ElementProps ==
  { [k \in PropNames |->
       IF k \in H THEN {ConsumerHandler}
       ELSE IF k = "aria-multiselectable" THEN am
       ELSE IF k = "selectionMode" THEN sm
       ELSE {}] :
      H \in {{}, Handlers} \cup {{h} : h \in Handlers}, am \in Flag,
      sm \in {{}, {"multiple"}} }

\* The attributes and handlers a consumer puts on the listbox of a Select.
SelectListboxProps ==
  { p \in ElementProps :
      /\ p["selectionMode"] = {}
      /\ \/ \A h \in Handlers : p[h] = {}
         \/ \A h \in Handlers : p[h] # {} }

\* The props that configure the list state ListboxRoot creates.
StateConfig ==
  [ options |-> {MkOptions({1})}, onValueChange |-> {TRUE}, value |-> {{2}},
    defaultValue |-> {{2}}, selectionMode |-> {"multiple"},
    selectionBehavior |-> {"replace"}, disallowEmptySelection |-> {TRUE},
    allowDuplicateSelectionEvents |-> {TRUE} ]

\* A listbox that is given a list state, and props of its own beside it:
\* none, one or all of those that configure a list state.
StateProps ==
  { [k \in PropNames |->
       IF k = "state" THEN {"ext"}
       ELSE IF k \in G THEN StateConfig[k]
       ELSE {}] :
      G \in {{}, DOMAIN StateConfig} \cup {{g} : g \in DOMAIN StateConfig} }

\* The list state of a Select: the options its owner created it with.
SelectStates ==
  { [ args |-> [ selectedKeys |-> {}, defaultSelectedKeys |-> {},
                 onSelectionChange |-> {},
                 allowDuplicateSelectionEvents |-> FALSE,
                 disallowEmptySelection |-> de,
                 selectionBehavior |-> {"toggle"},
                 selectionMode |-> {sm},
                 dataSource |-> MkOptions(Keys \ {1, 2}) ],
      signal |-> {}, focusedKey |-> {}, isFocused |-> FALSE ] :
      de \in BOOLEAN, sm \in {"single", "multiple"} }

-----------------------------------------------------------------------------
(* Behaviour *)

Init ==
  /\ component \in {"ListboxRoot", "SelectListbox"}
  /\ props \in IF component = "ListboxRoot"
                 THEN SelectionProps \cup FocusProps \cup ElementProps \cup StateProps
                 ELSE SelectListboxProps
  /\ ext \in IF ListboxRootProps["state"] # {} THEN {{x} : x \in SelectStates} ELSE {{}}
  /\ own = IF listState = "own"
             THEN {[NewState EXCEPT !.signal = initialSignal(createListStateArgs)]}
             ELSE {}
  /\ log = [event |-> "", key |-> "", calls |-> <<>>, proposed |-> <<>>, changes |-> <<>>]
  /\ ValidSelection(IF props["value"] # {} THEN The(props["value"])
                    ELSE IF props["defaultValue"] # {} THEN The(props["defaultValue"])
                    ELSE {},
                    IF props["options"] # {} THEN The(props["options"]) ELSE <<>>)

\* An event is dispatched on the listbox element: the rendered handler runs
\* its callees in order; the selectable list's handler acts on the list state
\* the selectable list was created with.
KeyDown ==
  \E calls \in rendered["onKeyDown"], sl \in {createSelectableListArgs} :
    \E a \in {Args(sl.listState)}, m \in {Machine(sl.listState)} :
      \E e \in KeyEvents :
        \E r \in {IF Ran(calls, "selectableList")
                    THEN selectableListOnKeyDown(sl, a, m, e) ELSE m} :
          /\ Store(sl.listState, r, "keydown", e.key, calls)
          /\ UNCHANGED <<component, props>>

MouseDown ==
  \E calls \in rendered["onMouseDown"], sl \in {createSelectableListArgs} :
    \E a \in {Args(sl.listState)}, m \in {Machine(sl.listState)} :
      \E r \in {IF Ran(calls, "selectableList")
                  THEN selectableListOnMouseDown(sl, a, m) ELSE m} :
        /\ Store(sl.listState, r, "mousedown", "", calls)
        /\ UNCHANGED <<component, props>>

FocusIn ==
  \E calls \in rendered["onFocusIn"], sl \in {createSelectableListArgs} :
    \E a \in {Args(sl.listState)}, m \in {Machine(sl.listState)} :
      \E r \in {IF Ran(calls, "selectableList")
                  THEN selectableListOnFocusIn(sl, a, m) ELSE m} :
        /\ Store(sl.listState, r, "focusin", "", calls)
        /\ UNCHANGED <<component, props>>

FocusOut ==
  \E calls \in rendered["onFocusOut"], sl \in {createSelectableListArgs} :
    \E a \in {Args(sl.listState)}, m \in {Machine(sl.listState)} :
      \E r \in {IF Ran(calls, "selectableList")
                  THEN selectableListOnFocusOut(sl, a, m) ELSE m} :
        /\ Store(sl.listState, r, "focusout", "", calls)
        /\ UNCHANGED <<component, props>>

\* An option of the listbox that is not disabled is pressed (pointer, or
\* Enter / Space on it): it finds the list state in the context, takes the
\* focus and is selected; with the Ctrl modifier it is toggled.
ItemPress ==
  \E id \in {context.listState} :
    \E a \in {Args(id)}, m0 \in {Machine(id)} :
      \E k \in Keys, ctrl \in BOOLEAN :
        \E m \in {[m0 EXCEPT !.focusedKey = {k}, !.isFocused = TRUE]} :
          \E r \in {IF ctrl THEN toggleSelection(a, m, k) ELSE select(a, m, k)} :
            /\ k \in CollectionKeys(a)
            /\ IndexOf(a, k) \in Focusable(a)
            /\ Store(id, r, "press", "", <<"item">>)
            /\ UNCHANGED <<component, props>>

\* The owner of a controlled listbox supplies a new value.
OwnerSetValue ==
  \E S \in SUBSET Keys :
    /\ props["value"] # {}
    /\ {S} # props["value"]
    /\ ValidSelection(S, dataSourceArg)
    /\ props' = [props EXCEPT !["value"] = {S}]
    /\ log' = [event |-> "value", key |-> "", calls |-> <<>>, proposed |-> <<>>, changes |-> <<>>]
    /\ UNCHANGED <<component, own, ext>>

\* The Select acts on its list state itself (its trigger selects an option).
SelectOperation ==
  \E x \in ext :
    /\ \E k \in Keys :
         \E r \in {select(x.args, [Machine("ext") EXCEPT !.focusedKey = {k}], k)} :
           /\ canSelectItem(x.args, k)
           /\ ext' = {[x EXCEPT !.signal = r.signal, !.focusedKey = {k}]}
    /\ log' = [event |-> "select", key |-> "", calls |-> <<>>, proposed |-> <<>>, changes |-> <<>>]
    /\ UNCHANGED <<component, props, own>>

Next ==
  \/ KeyDown
  \/ MouseDown
  \/ FocusIn
  \/ FocusOut
  \/ ItemPress
  \/ OwnerSetValue
  \/ SelectOperation

Spec == Init /\ [][Next]_vars

-----------------------------------------------------------------------------
(* The claims.  They read the props as the consumer wrote them, and the    *)
(* list state the listbox exposes in its context.                          *)

\* A list state is handed in: by the consumer's state prop, or by SelectListbox.
StateGiven == component = "SelectListbox" \/ props["state"] # {}

\* The selected keys and the focused key of the listbox.
Sel == SelectedKeysOf(listState)

Focused == FocusedKeyOf(listState)

\* The selection mode the consumer asked for: "single" unless stated.
ModeOfProps ==
  IF props["selectionMode"] = {} THEN "single" ELSE The(props["selectionMode"])

\* The selection mode of the list state in use.
ModeInUse == IF StateGiven THEN selectionMode(The(ext).args) ELSE ModeOfProps

ListboxEvents == {"keydown", "mousedown", "focusin", "focusout", "press"}

EventOf(h) ==
  CASE h = "onKeyDown" -> "keydown"
    [] h = "onMouseDown" -> "mousedown"
    [] h = "onFocusIn" -> "focusin"
    [] h = "onFocusOut" -> "focusout"

C3_DuplicateEvents ==
  [][ (~StateGiven /\ props["onValueChange"] # {} /\ log'.event \in ListboxEvents) =>
        /\ Len(log'.proposed) <= 1
        /\ log'.proposed = <<>> => log'.changes = <<>>
        /\ \A i \in DOMAIN log'.proposed :
             IF log'.proposed[i] # Sel \/ props["allowDuplicateSelectionEvents"] = {TRUE}
               THEN log'.changes = <<log'.proposed[i]>>
               ELSE log'.changes = <<>> ]_vars

\* A controlled listbox that allows duplicate events: the operation produced
\* the set that is selected already, and onValueChange got it.
C3_Witness ==
  /\ ~StateGiven
  /\ props["allowDuplicateSelectionEvents"] = {TRUE}
  /\ props["value"] # {}
  /\ log.event \in ListboxEvents
  /\ log.proposed = <<Sel>>
  /\ log.changes = <<Sel>>

\* C4: with the value prop the selected keys are the value, in the first
\* state and after every step; a user operation leaves the value and the
\* state's own signal alone and reports only sets it proposed.  Without the
\* value prop the selected keys start as defaultValue (empty without it), and
\* a step changes them exactly when it reports the new set to onValueChange.
C4_ControlledValue ==
  /\ ~StateGiven =>
       Sel = IF props["value"] # {} THEN The(props["value"])
             ELSE IF props["defaultValue"] # {} THEN The(props["defaultValue"])
             ELSE {}
  /\ [][ ~StateGiven =>
           IF props["value"] # {}
             THEN /\ Sel' = The(props'["value"])
                  /\ log'.event # "value" =>
                       /\ props' = props
                       /\ The(own').signal = The(own).signal
                       /\ \A i \in DOMAIN log'.changes :
                            \E j \in DOMAIN log'.proposed : log'.changes[i] = log'.proposed[j]
             ELSE /\ Sel' = The(own').signal
                  /\ (Sel' # Sel /\ props["onValueChange"] # {}) => log'.changes = <<Sel'>>
                  /\ log'.changes # <<>> => Sel' = log'.changes[Len(log'.changes)] ]_vars

\* A controlled listbox after a press: onValueChange got a set that is not
\* the value, and the value is still selected.
C4_Witness ==
  /\ ~StateGiven
  /\ props["value"] # {}
  /\ log.event = "press"
  /\ log.changes # <<>>
  /\ log.changes[1] # Sel
  /\ Sel = The(props["value"])

\* The list state handed in is the one in use, no other is created, and
\* what is selected, the collection and the calls of onValueChange are those
\* of that state; without one, the list state is built from the props.
C5_StateInUse ==
  /\ StateGiven =>
       /\ listState = "ext"
       /\ context.listState = "ext"
       /\ createSelectableListArgs.listState = "ext"
       /\ own = {}
       /\ Sel = The(ext).signal
       /\ Focused = The(ext).focusedKey
       /\ collection(Args(listState)) = The(ext).args.dataSource
       /\ selectionMode(Args(listState)) = The(The(ext).args.selectionMode)
       /\ log.changes = <<>>
  /\ ~StateGiven =>
       /\ listState = "own"
       /\ own # {}
       /\ collection(Args(listState)) =
            IF props["options"] # {} THEN The(props["options"]) ELSE <<>>
  /\ component = "SelectListbox" => ListboxRootProps["state"] = {"ext"}

\* C5: a list state handed in takes precedence, and of the props that
\* configure a list state all but disallowEmptySelection are without effect:
\* that prop still reaches the selectable list, so Escape clears the
\* selection of the state handed in only if neither that state nor the prop
\* disallows the empty selection.
C5_StatePrecedence ==
  /\ C5_StateInUse
  /\ [][ (StateGiven /\ log'.event = "keydown" /\ log'.key = "Escape") =>
           Sel' = IF The(ext).args.disallowEmptySelection
                     \/ props["disallowEmptySelection"] = {TRUE}
                    THEN Sel ELSE {} ]_vars

\* C5 as stated: disallowEmptySelection is without effect too, so Escape
\* clears the selection of the state handed in whenever that state allows it.
C5_Original ==
  /\ C5_StateInUse
  /\ [][ (StateGiven /\ log'.event = "keydown" /\ log'.key = "Escape") =>
           Sel' = IF The(ext).args.disallowEmptySelection THEN Sel ELSE {} ]_vars

\* A listbox given a state and a value of its own: option 1 of the state is
\* pressed and selected, the value {2} notwithstanding.
C5_Witness ==
  /\ props["state"] # {}
  /\ props["value"] = {{2}}
  /\ log.event = "press"
  /\ Sel = {1}
  /\ The(ext).signal = {1}

C7_AriaMultiselectable ==
  rendered["aria-multiselectable"] =
    IF props["aria-multiselectable"] # {} THEN props["aria-multiselectable"]
    ELSE IF ModeInUse = "multiple" THEN {TRUE} ELSE {}

\* C7 as stated: the attribute is true exactly in the mode "multiple".
C7_Original ==
  rendered["aria-multiselectable"] = IF ModeInUse = "multiple" THEN {TRUE} ELSE {}

\* A listbox given a "multiple" state and no selectionMode prop renders true.
C7_Witness ==
  /\ props["state"] # {}
  /\ props["selectionMode"] = {}
  /\ props["aria-multiselectable"] = {}
  /\ ModeInUse = "multiple"
  /\ rendered["aria-multiselectable"] = {TRUE}
  /\ log.event = "focusin"

\* C8: a dispatch of keydown, mousedown, focusin or focusout calls the
\* consumer's handler for the event, if there is one, and then the
\* selectable list's; the rendered handler is the composed one.
C8_HandlersComposed ==
  \A h \in Handlers :
    /\ rendered[h] = {(IF props[h] # {} THEN <<"consumer">> ELSE <<>>) \o <<"selectableList">>}
    /\ log.event = EventOf(h) => {log.calls} = rendered[h]

\* A keydown on a listbox with a consumer's onKeyDown: both ran, and the
\* selectable list moved the focus.
C8_Witness ==
  /\ props["onKeyDown"] # {}
  /\ log.event = "keydown"
  /\ log.key = "ArrowDown"
  /\ log.calls = <<"consumer", "selectableList">>
  /\ Focused # {}

====
